---------------------------- MODULE Spec2Model ----------------------------
(***************************************************************************)
(* Model of the PromptWise conversation core: the Telegram chat state      *)
(* machine of main.py (and its variant unified.py) and the stateless       *)
(* FastAPI endpoints of main.py.                                           *)
(*                                                                         *)
(* A text is a sequence of one-character strings.  Values that are not     *)
(* texts (Python's None, a key missing from user_data, fixed interface     *)
(* messages, fixed identifiers) are one-element sequences holding a longer *)
(* string, so that they never equal a text.                                *)
(***************************************************************************)
EXTENDS Naturals, Integers, Sequences, FiniteSets, TLC

(* ------------------------------ bounds -------------------------------- *)

\* largest number of fragments the engine streams in one generation
MaxFrags == 2

(* ------------------------ conversation states ------------------------- *)

ASK_PROMPT == 0
ASK_MODE == 1
ASK_FOLLOWUP == 2
ASK_EXPLAIN == 3
\* the two states main() registers as ASK_FOLLOWUP + 10 and ASK_FOLLOWUP + 11
QuestionsOffset == 10
AnswersOffset == 11
ASK_QUESTIONS == ASK_FOLLOWUP + QuestionsOffset
ASK_ANSWERS == ASK_FOLLOWUP + AnswersOffset
\* ConversationHandler.END: the conversation's key is dropped
END == -1

LiveStates == {ASK_PROMPT, ASK_MODE, ASK_FOLLOWUP, ASK_QUESTIONS, ASK_ANSWERS, ASK_EXPLAIN}

(* ------------------------------ values -------------------------------- *)

None == <<"None">>
Missing == <<"KeyError">>
model_used == <<"gemini-2.5-flash">>
telegram_user == <<"telegram-user">>
external_user == <<"external-user">>

deep_research == <<"d","e","e","p","_","r","e","s","e","a","r","c","h">>

UpperCase == <<"A","B","C","D","E","F","G","H","I","J","K","L","M","N","O","P","Q","R","S","T","U","V","W","X","Y","Z">>
LowerCase == <<"a","b","c","d","e","f","g","h","i","j","k","l","m","n","o","p","q","r","s","t","u","v","w","x","y","z">>

\* str.lower() on one character
LowerChar(c) ==
    IF \E i \in 1..Len(UpperCase) : UpperCase[i] = c
    THEN LowerCase[CHOOSE i \in 1..Len(UpperCase) : UpperCase[i] = c]
    ELSE c

\* str.lower()
lower(s) == [i \in 1..Len(s) |-> LowerChar(s[i])]

\* str.startswith(p)
startswith(s, p) == Len(s) >= Len(p) /\ SubSeq(s, 1, Len(p)) = p

RECURSIVE Concat(_)
\* "".join(chunk.content for chunk in ...): the fragments in order
Concat(frags) == IF frags = <<>> THEN <<>> ELSE Head(frags) \o Concat(Tail(frags))

(* --------------------------- delivery plan ---------------------------- *)

MAX_LENGTH == 4000
FileFactor == 5

Min(a, b) == IF a <= b THEN a ELSE b

\* faulty variant: the last, shorter slice is left out
NumChunks_floor(n) == n \div MAX_LENGTH

\* range(0, len(response_text), MAX_LENGTH): the number of start offsets
NumChunks(n) == (n + MAX_LENGTH - 1) \div MAX_LENGTH

\* faulty variant: a text of exactly MAX_LENGTH characters is not sent inline
get_send_strategy_strict(response_text) ==
    IF Len(response_text) < MAX_LENGTH
    THEN [strategy |-> "text", output |-> <<response_text>>]
    ELSE IF Len(response_text) <= MAX_LENGTH * FileFactor
    THEN [strategy |-> "chunks",
          output |-> [k \in 1..NumChunks(Len(response_text)) |->
                        SubSeq(response_text, (k - 1) * MAX_LENGTH + 1,
                               Min(k * MAX_LENGTH, Len(response_text)))]]
    ELSE [strategy |-> "file", output |-> <<response_text>>]

get_send_strategy(response_text) ==
    IF Len(response_text) <= MAX_LENGTH
    THEN [strategy |-> "text", output |-> <<response_text>>]
    ELSE IF Len(response_text) <= MAX_LENGTH * FileFactor
    THEN [strategy |-> "chunks",
          output |-> [k \in 1..NumChunks(Len(response_text)) |->
                        SubSeq(response_text, (k - 1) * MAX_LENGTH + 1,
                               Min(k * MAX_LENGTH, Len(response_text)))]]
    ELSE [strategy |-> "file", output |-> <<response_text>>]

(* ------------------------- outbound messages -------------------------- *)

Msg(kind, body) == [kind |-> kind, body |-> body]
UI(name) == Msg("ui", <<name>>)

\* the strategy dispatch that follows get_send_strategy in the handlers
send_by_strategy(plan) ==
    IF plan.strategy = "text" THEN <<Msg("text", plan.output[1])>>
    ELSE IF plan.strategy = "chunks"
    THEN [k \in 1..Len(plan.output) |-> Msg("text", plan.output[k])]
    ELSE <<Msg("document", plan.output[1])>>

(* ----------------- the engine and the store (prompt_engine) ------------ *)

\* A generation: the engine is unreachable (the generator raises), or it
\* streams an ordered finite sequence of fragments, possibly none.
Gen(ok, frags) == [ok |-> ok, frags |-> frags]
Unreachable == Gen(FALSE, <<>>)

\* A structured explanation record.  keys holds the top-level keys present; a
\* list that is missing or empty is the empty sequence (dict.get's default).
Dict(keys, s, w, u, t) ==
    [keys |-> keys, strengths |-> s, weaknesses |-> w,
     llm_understanding_improvements |-> u, tips_for_future_prompts |-> t]
NoDict == Dict({"none"}, <<>>, <<>>, <<>>, <<>>)

\* Python truthiness of extract_json_from_response's result: None and {} are false
Truthy(d) == d # NoDict /\ d.keys # {}

SectionLetters == {"O", "S", "W", "U", "T"}

\* the items of one section inside a block, in their order in the text
Items(inner, letter) == SelectSeq(inner, LAMBDA c : c = letter)

\* the record a well-formed block "{" inner "}" denotes
BlockDict(inner) ==
    Dict({"original_prompt" : i \in {j \in 1..Len(inner) : inner[j] \in {"O", "S", "W"}}}
            \cup {"llm_understanding_improvements" : i \in {j \in 1..Len(inner) : inner[j] = "U"}}
            \cup {"tips_for_future_prompts" : i \in {j \in 1..Len(inner) : inner[j] = "T"}},
         Items(inner, "S"), Items(inner, "W"), Items(inner, "U"), Items(inner, "T"))

\* the (start, end) pairs of the well-formed blocks of a text
Blocks(s) ==
    {p \in (1..Len(s)) \X (1..Len(s)) :
        /\ p[1] < p[2]
        /\ s[p[1]] = "{"
        /\ s[p[2]] = "}"
        /\ \A k \in (p[1] + 1)..(p[2] - 1) : s[k] \in SectionLetters}

\* the first well-formed embedded block of the text, or none
extract_json_from_response(explanation) ==
    IF Blocks(explanation) = {} THEN NoDict
    ELSE LET p == CHOOSE q \in Blocks(explanation) :
                    \A r \in Blocks(explanation) : q[1] <= r[1]
         IN BlockDict(SubSeq(explanation, p[1] + 1, p[2] - 1))

\* one call made to prompt_engine: the operation, its text arguments, its
\* record argument, whether it went through, and how many replies of the turn
\* had been sent when it was made
Call(op, args, dict, ok) ==
    [op |-> op, args |-> args, dict |-> dict, ok |-> ok, after |-> 0]

\* a call made when n replies of the turn have been sent
At(n, call) == [call EXCEPT !.after = n]

\* the environment of one turn: whether SUPABASE_KEY and SUPABASE_URL are
\* set, the generation, the id the store returns for a logged optimization
\* (None when the write fails), whether a later write goes through, and
\* whether the transport accepts an empty text
Env(conf, gen, id, saved, sent) ==
    [configured |-> conf, gen |-> gen, id |-> id, saved |-> saved, sent |-> sent]

log_prompt_to_supabase(original_prompt, optimized_prompt, mode, e) ==
    Call("log_prompt_to_supabase", <<original_prompt, optimized_prompt, mode, model_used>>,
         NoDict, e.id # None)

save_deep_research_questions_separately(prompt_id, questions_asked, answers, preferences, e) ==
    Call("save_deep_research_questions_separately",
         <<prompt_id, questions_asked, answers, preferences>>, NoDict, e.saved)

save_explanation_separately(prompt_id, explanation_dict, e) ==
    Call("save_explanation_separately", <<prompt_id>>, explanation_dict, e.saved)

optimize_prompt(prompt, mode, e) ==
    Call("optimize_prompt", <<prompt, mode>>, NoDict, e.gen.ok)

explain_prompt(original_prompt, optimized_prompt, mode, e) ==
    Call("explain_prompt", <<original_prompt, optimized_prompt, mode>>, NoDict, e.gen.ok)

deep_research_questions(questions_asked, answers, preferences, e) ==
    Call("deep_research_questions", <<questions_asked, answers, preferences>>, NoDict, e.gen.ok)

(* ------------------------ explanation rendering ----------------------- *)

RECURSIVE Bullets(_)
\* for s in values: msg += f"\n* {s}"
Bullets(values) ==
    IF values = <<>> THEN <<>> ELSE <<"\n* ", Head(values)>> \o Bullets(Tail(values))

Section(title, values) == IF values # <<>> THEN <<<<title>> \o Bullets(values)>> ELSE <<>>

\* faulty variant: the tips come first and the strengths last
format_explanation_to_messages_tips_first(data) ==
    <<<<"Prompt Feedback Analysis">>>>
        \o Section("Tips for Future Prompts", data.tips_for_future_prompts)
        \o Section("Original Prompt Weaknesses", data.weaknesses)
        \o Section("What LLMs Understand Better Now", data.llm_understanding_improvements)
        \o Section("Original Prompt Strengths", data.strengths)

format_explanation_to_messages(data) ==
    <<<<"Prompt Feedback Analysis">>>>
        \o Section("Original Prompt Strengths", data.strengths)
        \o Section("Original Prompt Weaknesses", data.weaknesses)
        \o Section("What LLMs Understand Better Now", data.llm_understanding_improvements)
        \o Section("Tips for Future Prompts", data.tips_for_future_prompts)

(* ----------------------- the API facade of main.py -------------------- *)

\* The JSON a route returns (status 200), or the 500 FastAPI answers when the
\* route raises.  A field the route does not return is None.
Response(status, id, text, calls) ==
    [status |-> status, id |-> id, text |-> text, calls |-> calls]

OptimizeRequest(prompt, mode) ==
    [prompt |-> prompt, mode |-> mode, original_prompt |-> None, optimized_prompt |-> None,
     prompt_id |-> None, questions_asked |-> None, answers |-> None, preferences |-> None,
     explanation_json |-> NoDict]

ExplainRequest(original_prompt, optimized_prompt, mode) ==
    [prompt |-> None, mode |-> mode, original_prompt |-> original_prompt,
     optimized_prompt |-> optimized_prompt,
     prompt_id |-> Missing, questions_asked |-> None, answers |-> None, preferences |-> None,
     explanation_json |-> NoDict]

ResearchFollowupRequest(prompt_id, questions_asked, answers, preferences) ==
    [prompt |-> None, mode |-> None, original_prompt |-> None, optimized_prompt |-> None,
     prompt_id |-> prompt_id, questions_asked |-> questions_asked, answers |-> answers,
     preferences |-> preferences, explanation_json |-> NoDict]

FeedbackLogRequest(prompt_id, explanation_json) ==
    [prompt |-> None, mode |-> None, original_prompt |-> None, optimized_prompt |-> None,
     prompt_id |-> prompt_id, questions_asked |-> None, answers |-> None,
     preferences |-> None, explanation_json |-> explanation_json]

\* faulty variant: the route fails when the store returned no id
optimize_endpoint_needs_id(data, e) ==
    LET c1 == <<optimize_prompt(data.prompt, data.mode, e)>>
    IN  IF ~e.gen.ok THEN Response(500, None, None, c1)
        ELSE
        LET optimized == Concat(e.gen.frags)
        IN  IF e.configured
            THEN IF e.id = None
                 THEN Response(500, None, None,
                               Append(c1, log_prompt_to_supabase(data.prompt, optimized, data.mode, e)))
                 ELSE Response(200, e.id, optimized,
                               Append(c1, log_prompt_to_supabase(data.prompt, optimized, data.mode, e)))
            ELSE Response(200, None, optimized, c1)

optimize_endpoint(data, e) ==
    LET c1 == <<optimize_prompt(data.prompt, data.mode, e)>>
    IN  IF ~e.gen.ok THEN Response(500, None, None, c1)
        ELSE
        LET optimized == Concat(e.gen.frags)
        IN  IF e.configured
            THEN Response(200, e.id, optimized,
                          Append(c1, log_prompt_to_supabase(data.prompt, optimized, data.mode, e)))
            ELSE Response(200, None, optimized, c1)

explain_endpoint(data, e) ==
    LET c1 == <<explain_prompt(data.original_prompt, data.optimized_prompt, data.mode, e)>>
    IN  IF ~e.gen.ok THEN Response(500, None, None, c1)
        ELSE
        LET explanation == Concat(e.gen.frags)
            parsed == extract_json_from_response(explanation)
        IN  IF e.configured /\ Truthy(parsed)
            THEN Response(200, None, explanation,
                          Append(c1, save_explanation_separately(
                                        IF data.prompt_id # Missing THEN data.prompt_id
                                        ELSE external_user, parsed, e)))
            ELSE Response(200, None, explanation, c1)

followup_endpoint(data, e) ==
    LET prefs == IF data.preferences = None \/ data.preferences = <<>> THEN <<>>
                 ELSE data.preferences
        c1 == <<deep_research_questions(data.questions_asked, data.answers, prefs, e)>>
    IN  IF ~e.gen.ok THEN Response(500, None, None, c1)
        ELSE
        LET response == Concat(e.gen.frags)
        IN  IF data.prompt_id # <<>>
            THEN Response(200, None, response,
                          Append(c1, save_deep_research_questions_separately(
                                        data.prompt_id, data.questions_asked, response,
                                        data.preferences, e)))
            ELSE Response(200, None, response, c1)

log_feedback_endpoint(data, e) ==
    Response(200, None, <<"success">>,
             <<save_explanation_separately(data.prompt_id, data.explanation_json, e)>>)

(* ------------------- the chat handlers of main.py --------------------- *)

\* What a handler did: the state it returned (or that it raised), the
\* user_data it left, the replies it sent, the prompt_engine calls it made.
Return(state, ud, out, calls) ==
    [raised |-> FALSE, ret |-> state, ud |-> ud, out |-> out, calls |-> calls]
Raise(ud, out, calls) ==
    [raised |-> TRUE, ret |-> END, ud |-> ud, out |-> out, calls |-> calls]

\* the transport accepts the replies of a delivery; whether it accepts an
\* empty text is the environment's choice
Accepted(text, e) == text # <<>> \/ e.sent

start(ud, text, e) == Return(ASK_PROMPT, ud, <<UI("welcome")>>, <<>>)

\* faulty variant: a prompt already stored is kept
handle_prompt_keeps_old(ud, text, e) ==
    Return(ASK_MODE, [ud EXCEPT !.prompt = IF @ = Missing THEN text ELSE @],
           <<UI("enter_mode")>>, <<>>)

handle_prompt(ud, text, e) ==
    Return(ASK_MODE, [ud EXCEPT !.prompt = text], <<UI("enter_mode")>>, <<>>)

\* faulty variant: a failed optimize is swallowed and the conversation moves on
handle_mode_advances_on_failure(ud, text, e) ==
    LET ud1 == [ud EXCEPT !.mode = text]
        out1 == <<UI("optimizing")>>
    IN  IF ud1.prompt = Missing THEN Raise(ud1, out1, <<>>)
        ELSE
        LET c1 == <<At(Len(out1), optimize_prompt(ud1.prompt, ud1.mode, e))>>
        IN  IF ~e.gen.ok THEN Return(ASK_EXPLAIN, ud1, out1 \o <<UI("want_explain")>>, c1)
            ELSE
            LET optimized == Concat(e.gen.frags)
                ud2 == [ud1 EXCEPT !.optimized = optimized, !.id = e.id]
                c2 == Append(c1, At(Len(out1),
                                    log_prompt_to_supabase(ud1.prompt, optimized, ud1.mode, e)))
                plan == get_send_strategy(optimized)
            IN  IF ~Accepted(optimized, e) THEN Raise(ud2, out1, c2)
                ELSE IF ud2.mode = deep_research
                THEN Return(ASK_FOLLOWUP, ud2,
                            out1 \o send_by_strategy(plan) \o <<UI("want_followup")>>, c2)
                ELSE Return(ASK_EXPLAIN, ud2,
                            out1 \o send_by_strategy(plan) \o <<UI("want_explain")>>, c2)

\* faulty variant: the mode is compared ignoring letter case
handle_mode_ignores_case(ud, text, e) ==
    LET ud1 == [ud EXCEPT !.mode = text]
        out1 == <<UI("optimizing")>>
    IN  IF ud1.prompt = Missing THEN Raise(ud1, out1, <<>>)
        ELSE
        LET c1 == <<At(Len(out1), optimize_prompt(ud1.prompt, ud1.mode, e))>>
        IN  IF ~e.gen.ok THEN Raise(ud1, out1, c1)
            ELSE
            LET optimized == Concat(e.gen.frags)
                ud2 == [ud1 EXCEPT !.optimized = optimized, !.id = e.id]
                c2 == Append(c1, At(Len(out1),
                                    log_prompt_to_supabase(ud1.prompt, optimized, ud1.mode, e)))
                plan == get_send_strategy(optimized)
            IN  IF ~Accepted(optimized, e) THEN Raise(ud2, out1, c2)
                ELSE IF lower(ud2.mode) = deep_research
                THEN Return(ASK_FOLLOWUP, ud2,
                            out1 \o send_by_strategy(plan) \o <<UI("want_followup")>>, c2)
                ELSE Return(ASK_EXPLAIN, ud2,
                            out1 \o send_by_strategy(plan) \o <<UI("want_explain")>>, c2)

\* faulty variant: the optimized text replaces the stored prompt
handle_mode_overwrites_prompt(ud, text, e) ==
    LET ud1 == [ud EXCEPT !.mode = text]
        out1 == <<UI("optimizing")>>
    IN  IF ud1.prompt = Missing THEN Raise(ud1, out1, <<>>)
        ELSE
        LET c1 == <<At(Len(out1), optimize_prompt(ud1.prompt, ud1.mode, e))>>
        IN  IF ~e.gen.ok THEN Raise(ud1, out1, c1)
            ELSE
            LET optimized == Concat(e.gen.frags)
                ud2 == [ud1 EXCEPT !.prompt = optimized, !.optimized = optimized, !.id = e.id]
                c2 == Append(c1, At(Len(out1),
                                    log_prompt_to_supabase(ud1.prompt, optimized, ud1.mode, e)))
                plan == get_send_strategy(optimized)
            IN  IF ~Accepted(optimized, e) THEN Raise(ud2, out1, c2)
                ELSE IF ud2.mode = deep_research
                THEN Return(ASK_FOLLOWUP, ud2,
                            out1 \o send_by_strategy(plan) \o <<UI("want_followup")>>, c2)
                ELSE Return(ASK_EXPLAIN, ud2,
                            out1 \o send_by_strategy(plan) \o <<UI("want_explain")>>, c2)

handle_mode(ud, text, e) ==
    LET ud1 == [ud EXCEPT !.mode = text]
        out1 == <<UI("optimizing")>>
    IN  IF ud1.prompt = Missing THEN Raise(ud1, out1, <<>>)
        ELSE
        LET c1 == <<At(Len(out1), optimize_prompt(ud1.prompt, ud1.mode, e))>>
        IN  IF ~e.gen.ok THEN Raise(ud1, out1, c1)
            ELSE
            LET optimized == Concat(e.gen.frags)
                ud2 == [ud1 EXCEPT !.optimized = optimized, !.id = e.id]
                c2 == Append(c1, At(Len(out1),
                                    log_prompt_to_supabase(ud1.prompt, optimized, ud1.mode, e)))
                plan == get_send_strategy(optimized)
            IN  IF ~Accepted(optimized, e) THEN Raise(ud2, out1, c2)
                ELSE IF ud2.mode = deep_research
                THEN Return(ASK_FOLLOWUP, ud2,
                            out1 \o send_by_strategy(plan) \o <<UI("want_followup")>>, c2)
                ELSE Return(ASK_EXPLAIN, ud2,
                            out1 \o send_by_strategy(plan) \o <<UI("want_explain")>>, c2)

\* faulty variant: the follow-up questions are asked whatever the answer
handle_followup_always_asks(ud, text, e) ==
    Return(ASK_FOLLOWUP + QuestionsOffset, ud, <<UI("enter_questions")>>, <<>>)

\* faulty variant: an answer that is not a yes is asked for again
handle_followup_asks_again(ud, text, e) ==
    IF startswith(lower(text), <<"y">>)
    THEN Return(ASK_FOLLOWUP + QuestionsOffset, ud, <<UI("enter_questions")>>, <<>>)
    ELSE Return(ASK_FOLLOWUP, ud, <<UI("want_followup")>>, <<>>)

handle_followup(ud, text, e) ==
    IF startswith(lower(text), <<"y">>)
    THEN Return(ASK_FOLLOWUP + QuestionsOffset, ud, <<UI("enter_questions")>>, <<>>)
    ELSE Return(ASK_EXPLAIN, ud, <<UI("want_explain")>>, <<>>)

collect_questions(ud, text, e) ==
    Return(ASK_FOLLOWUP + AnswersOffset, [ud EXCEPT !.questions_asked = text],
           <<UI("enter_preferences")>>, <<>>)

\* faulty variant: the follow-up turn fails when the optimization was not logged
collect_answers_needs_id(ud, text, e) ==
    LET prefs == IF lower(text) = <<"n", "o">> THEN <<>> ELSE text
        ud1 == [ud EXCEPT !.preferences = prefs]
    IN  IF ud1.questions_asked = Missing \/ ud1.optimized = Missing THEN Raise(ud1, <<>>, <<>>)
        ELSE
        LET c1 == <<deep_research_questions(ud1.questions_asked, ud1.optimized, prefs, e)>>
        IN  IF ~e.gen.ok THEN Raise(ud1, <<>>, c1)
            ELSE
            LET response == Concat(e.gen.frags)
            IN  IF ud1.id \in {Missing, None} THEN Raise(ud1, <<>>, c1)
                ELSE
                LET c2 == Append(c1, save_deep_research_questions_separately(
                                        ud1.id, ud1.questions_asked, response, prefs, e))
                    plan == get_send_strategy(response)
                IN  IF ~Accepted(response, e) THEN Raise(ud1, <<>>, c2)
                    ELSE Return(ASK_EXPLAIN, ud1,
                                send_by_strategy(plan) \o <<UI("want_explain")>>, c2)

\* faulty variant: only the lower-case "no" is normalised
collect_answers_exact_no(ud, text, e) ==
    LET prefs == IF text = <<"n", "o">> THEN <<>> ELSE text
        ud1 == [ud EXCEPT !.preferences = prefs]
    IN  IF ud1.questions_asked = Missing \/ ud1.optimized = Missing THEN Raise(ud1, <<>>, <<>>)
        ELSE
        LET c1 == <<deep_research_questions(ud1.questions_asked, ud1.optimized, prefs, e)>>
        IN  IF ~e.gen.ok THEN Raise(ud1, <<>>, c1)
            ELSE
            LET response == Concat(e.gen.frags)
            IN  IF ud1.id = Missing THEN Raise(ud1, <<>>, c1)
                ELSE
                LET c2 == Append(c1, save_deep_research_questions_separately(
                                        ud1.id, ud1.questions_asked, response, prefs, e))
                    plan == get_send_strategy(response)
                IN  IF ~Accepted(response, e) THEN Raise(ud1, <<>>, c2)
                    ELSE Return(ASK_EXPLAIN, ud1,
                                send_by_strategy(plan) \o <<UI("want_explain")>>, c2)

collect_answers(ud, text, e) ==
    LET prefs == IF lower(text) = <<"n", "o">> THEN <<>> ELSE text
        ud1 == [ud EXCEPT !.preferences = prefs]
    IN  IF ud1.questions_asked = Missing \/ ud1.optimized = Missing THEN Raise(ud1, <<>>, <<>>)
        ELSE
        LET c1 == <<deep_research_questions(ud1.questions_asked, ud1.optimized, prefs, e)>>
        IN  IF ~e.gen.ok THEN Raise(ud1, <<>>, c1)
            ELSE
            LET response == Concat(e.gen.frags)
            IN  IF ud1.id = Missing THEN Raise(ud1, <<>>, c1)
                ELSE
                LET c2 == Append(c1, save_deep_research_questions_separately(
                                        ud1.id, ud1.questions_asked, response, prefs, e))
                    plan == get_send_strategy(response)
                IN  IF ~Accepted(response, e) THEN Raise(ud1, <<>>, c2)
                    ELSE Return(ASK_EXPLAIN, ud1,
                                send_by_strategy(plan) \o <<UI("want_explain")>>, c2)

\* faulty variant: a "y" anywhere in the answer counts as yes
handle_explain_any_y(ud, text, e) ==
    IF \E k \in 1..Len(text) : lower(text)[k] = "y"
    THEN IF ud.prompt = Missing \/ ud.optimized = Missing \/ ud.mode = Missing
         THEN Raise(ud, <<>>, <<>>)
         ELSE
         LET c1 == <<explain_prompt(ud.prompt, ud.optimized, ud.mode, e)>>
         IN  IF ~e.gen.ok THEN Raise(ud, <<>>, c1)
             ELSE
             LET explanation == Concat(e.gen.frags)
                 parsed == extract_json_from_response(explanation)
             IN  IF Truthy(parsed)
                 THEN IF ud.id = Missing THEN Raise(ud, <<>>, c1)
                      ELSE Return(END, ud,
                                  [k \in 1..Len(format_explanation_to_messages(parsed)) |->
                                     Msg("markdown", format_explanation_to_messages(parsed)[k])],
                                  Append(c1, save_explanation_separately(ud.id, parsed, e)))
                 ELSE IF ~Accepted(explanation, e) THEN Raise(ud, <<>>, c1)
                      ELSE Return(END, ud, <<Msg("text", explanation)>>, c1)
    ELSE Return(END, ud, <<UI("done")>>, <<>>)

\* faulty variant: the raw explanation is persisted as well
handle_explain_saves_raw(ud, text, e) ==
    IF startswith(lower(text), <<"y">>)
    THEN IF ud.prompt = Missing \/ ud.optimized = Missing \/ ud.mode = Missing
         THEN Raise(ud, <<>>, <<>>)
         ELSE
         LET c1 == <<explain_prompt(ud.prompt, ud.optimized, ud.mode, e)>>
         IN  IF ~e.gen.ok THEN Raise(ud, <<>>, c1)
             ELSE
             LET explanation == Concat(e.gen.frags)
                 parsed == extract_json_from_response(explanation)
             IN  IF Truthy(parsed)
                 THEN IF ud.id = Missing THEN Raise(ud, <<>>, c1)
                      ELSE Return(END, ud,
                                  [k \in 1..Len(format_explanation_to_messages(parsed)) |->
                                     Msg("markdown", format_explanation_to_messages(parsed)[k])],
                                  Append(c1, save_explanation_separately(ud.id, parsed, e)))
                 ELSE IF ~Accepted(explanation, e) THEN Raise(ud, <<>>, c1)
                      ELSE Return(END, ud, <<Msg("text", explanation)>>,
                                  Append(c1, save_explanation_separately(ud.id, parsed, e)))
    ELSE Return(END, ud, <<UI("done")>>, <<>>)

handle_explain(ud, text, e) ==
    IF startswith(lower(text), <<"y">>)
    THEN IF ud.prompt = Missing \/ ud.optimized = Missing \/ ud.mode = Missing
         THEN Raise(ud, <<>>, <<>>)
         ELSE
         LET c1 == <<explain_prompt(ud.prompt, ud.optimized, ud.mode, e)>>
         IN  IF ~e.gen.ok THEN Raise(ud, <<>>, c1)
             ELSE
             LET explanation == Concat(e.gen.frags)
                 parsed == extract_json_from_response(explanation)
             IN  IF Truthy(parsed)
                 THEN IF ud.id = Missing THEN Raise(ud, <<>>, c1)
                      ELSE Return(END, ud,
                                  [k \in 1..Len(format_explanation_to_messages(parsed)) |->
                                     Msg("markdown", format_explanation_to_messages(parsed)[k])],
                                  Append(c1, save_explanation_separately(ud.id, parsed, e)))
                 ELSE IF ~Accepted(explanation, e) THEN Raise(ud, <<>>, c1)
                      ELSE Return(END, ud, <<Msg("text", explanation)>>, c1)
    ELSE Return(END, ud, <<UI("done")>>, <<>>)

cancel(ud, text, e) == Return(END, ud, <<UI("cancelled")>>, <<>>)

(* ----------------- the chat handlers unified.py changes ---------------- *)

\* "\n".join(f"* {s}" for s in values)
RECURSIVE Joined(_)
Joined(values) ==
    IF values = <<>> THEN <<>>
    ELSE IF Len(values) = 1 THEN <<"* ", Head(values)>>
    ELSE <<"* ", Head(values), "\n">> \o Joined(Tail(values))

unified_Section(title, values) ==
    IF values # <<>> THEN <<<<title, "\\n">> \o Joined(values)>> ELSE <<>>

unified_format_explanation_to_messages(data) ==
    <<<<"Prompt Feedback Analysis">>>>
        \o unified_Section("Original Prompt Strengths", data.strengths)
        \o unified_Section("Original Prompt Weaknesses", data.weaknesses)
        \o unified_Section("What the LLM Understands Better Now", data.llm_understanding_improvements)
        \o unified_Section("Tips for Future Prompts", data.tips_for_future_prompts)

unified_handle_mode(ud, text, e) ==
    IF ud.prompt = Missing THEN Raise(ud, <<>>, <<>>)
    ELSE
    LET prompt == ud.prompt
        mode == text
        ud1 == [ud EXCEPT !.mode = mode]
        out1 == <<UI("optimizing")>>
        c1 == <<At(Len(out1), optimize_prompt(prompt, mode, e))>>
    IN  IF ~e.gen.ok THEN Raise(ud1, out1, c1)
        ELSE
        LET optimized == Concat(e.gen.frags)
            ud2 == [ud1 EXCEPT !.optimized = optimized]
            c2 == IF e.configured
                  THEN Append(c1, At(Len(out1),
                                      log_prompt_to_supabase(prompt, optimized, mode, e)))
                  ELSE c1
            plan == get_send_strategy(optimized)
        IN  IF ~Accepted(optimized, e) THEN Raise(ud2, out1, c2)
            ELSE IF mode = deep_research
            THEN Return(ASK_FOLLOWUP, ud2,
                        out1 \o send_by_strategy(plan) \o <<UI("want_followup")>>, c2)
            ELSE Return(ASK_EXPLAIN, ud2,
                        out1 \o send_by_strategy(plan) \o <<UI("want_explain")>>, c2)

unified_collect_answers(ud, text, e) ==
    LET preferences == IF lower(text) = <<"n", "o">> THEN <<>> ELSE text
        ud1 == [ud EXCEPT !.preferences = preferences]
    IN  IF ud1.questions_asked = Missing \/ ud1.optimized = Missing THEN Raise(ud1, <<>>, <<>>)
        ELSE
        LET c1 == <<deep_research_questions(ud1.questions_asked, ud1.optimized, preferences, e)>>
        IN  IF ~e.gen.ok THEN Raise(ud1, <<>>, c1)
            ELSE
            LET response == Concat(e.gen.frags)
                c2 == Append(c1, save_deep_research_questions_separately(
                                    telegram_user, ud1.questions_asked, response, preferences, e))
                plan == get_send_strategy(response)
            IN  IF ~Accepted(response, e) THEN Raise(ud1, <<>>, c2)
                ELSE Return(ASK_EXPLAIN, ud1,
                            send_by_strategy(plan) \o <<UI("want_explain")>>, c2)

unified_handle_explain(ud, text, e) ==
    IF startswith(lower(text), <<"y">>)
    THEN IF ud.prompt = Missing \/ ud.optimized = Missing \/ ud.mode = Missing
         THEN Raise(ud, <<>>, <<>>)
         ELSE
         LET c1 == <<explain_prompt(ud.prompt, ud.optimized, ud.mode, e)>>
         IN  IF ~e.gen.ok THEN Raise(ud, <<>>, c1)
             ELSE
             LET explanation == Concat(e.gen.frags)
                 parsed == extract_json_from_response(explanation)
                 messages == unified_format_explanation_to_messages(parsed)
             IN  IF Truthy(parsed)
                 THEN Return(END, ud,
                             [k \in 1..Len(messages) |-> Msg("markdown", messages[k])],
                             Append(c1, save_explanation_separately(telegram_user, parsed, e)))
                 ELSE IF ~Accepted(explanation, e) THEN Raise(ud, <<>>, c1)
                      ELSE Return(END, ud, <<Msg("text", explanation)>>, c1)
    ELSE Return(END, ud, <<UI("done")>>, <<>>)

(* --------------------------- the chat machine ------------------------- *)

VARIABLES
    variant,     \* which file runs the bot: "main" or "unified"
    configured,  \* SUPABASE_KEY and SUPABASE_URL are both set
    conv,        \* the ConversationHandler state of the identity, END if none
    user_data,   \* context.user_data of the identity
    sess,        \* what has happened since the entry command (history)
    turn,        \* the last update and how it was handled (history)
    emitted,     \* the replies sent while handling the last update
    calls,       \* the prompt_engine calls made while handling the last update
    api,         \* the last API call: route, request, environment, response
    delivery,    \* a response text and the plan get_send_strategy made for it
    dispatch     \* the bot's update queue and the turns being handled

vars ==
    <<variant, configured, conv, user_data, sess, turn, emitted, calls, api, delivery,
      dispatch>>
chat_vars == <<conv, user_data, sess, turn, emitted>>

\* inbound updates
Text(t) == [kind |-> "text", arg |-> t]
Command(c) == [kind |-> "command", arg |-> <<c>>]
NonText == [kind |-> "other", arg |-> <<"photo">>]

\* the texts a user sends, by the state that reads them
PromptTexts == {<<"o", "y">>, <<"Y">>}
ModeTexts == {deep_research, <<"D","e","e","p","_","R","e","s","e","a","r","c","h">>}
DecisionTexts == {<<"y">>, <<"Y">>, <<"N", "o">>, <<"o", "y">>}
QuestionTexts == {<<"o", "y">>, <<"Y">>}
AnswerTexts == {<<"N", "o">>, <<"n", "o">>, <<"o", "y">>}

TextsFor(state) ==
    CASE state = ASK_PROMPT -> PromptTexts
      [] state = ASK_MODE -> ModeTexts
      [] state = ASK_FOLLOWUP -> DecisionTexts
      [] state = ASK_QUESTIONS -> QuestionTexts
      [] state = ASK_ANSWERS -> AnswerTexts
      [] state = ASK_EXPLAIN -> DecisionTexts
      [] OTHER -> {<<"o", "y">>}

\* the fragment sequences of at most MaxFrags fragments over a fragment set
RECURSIVE FragSeqs(_, _)
FragSeqs(F, n) ==
    IF n = 0 THEN {<<>>}
    ELSE FragSeqs(F, n - 1) \cup {Append(q, f) : q \in FragSeqs(F, n - 1), f \in F}

OptimizeGens == {Unreachable} \cup {Gen(TRUE, q) : q \in FragSeqs({<<"a">>}, MaxFrags)}
FollowupGens == {Unreachable} \cup {Gen(TRUE, q) : q \in FragSeqs({<<"f">>}, MaxFrags)}
ExplainGens ==
    {Unreachable, Gen(TRUE, <<>>), Gen(TRUE, <<<<"x">>>>),
     Gen(TRUE, <<<<"x", "{", "T">>, <<"S", "}">>>>),
     Gen(TRUE, <<<<"{", "U", "W", "}">>>>),
     Gen(TRUE, <<<<"{", "}">>>>)}

RecordIds == {<<"id1">>}

NoGen == Gen(TRUE, <<>>)

\* the environments that differ for a handler: only what the handler reads
PlainEnvs == {Env(configured, NoGen, None, TRUE, TRUE)}
SentChoices(g) == IF g.ok /\ Concat(g.frags) = <<>> THEN BOOLEAN ELSE {TRUE}
ModeEnvs ==
    {Env(configured, g, id, TRUE, snt) :
        g \in OptimizeGens, id \in (IF configured THEN RecordIds ELSE {}) \cup {None},
        snt \in BOOLEAN}
AnswerEnvs ==
    {Env(configured, g, None, sv, snt) :
        g \in FollowupGens, sv \in (IF configured THEN BOOLEAN ELSE {FALSE}), snt \in BOOLEAN}
ExplainEnvs ==
    {Env(configured, g, None, sv, snt) :
        g \in ExplainGens, sv \in (IF configured THEN BOOLEAN ELSE {FALSE}), snt \in BOOLEAN}
Canonical(e) == e.sent \in SentChoices(e.gen)

\* faulty variant: the state handlers filter on TEXT alone, so they take commands too
Route_commands_as_text(state, u) ==
    IF state = END
    THEN IF u = Command("start") THEN "start" ELSE "none"
    ELSE IF u.kind \in {"text", "command"}
    THEN CASE state = ASK_PROMPT -> "handle_prompt"
           [] state = ASK_MODE -> "handle_mode"
           [] state = ASK_FOLLOWUP -> "handle_followup"
           [] state = ASK_FOLLOWUP + QuestionsOffset -> "collect_questions"
           [] state = ASK_FOLLOWUP + AnswersOffset -> "collect_answers"
           [] state = ASK_EXPLAIN -> "handle_explain"
           [] OTHER -> "none"
    ELSE IF u = Command("cancel") THEN "cancel" ELSE "none"

\* main(): the ConversationHandler.  With no conversation only the entry
\* point is tried; in a conversation the state's handlers are tried first and
\* the fallbacks after them; an update nothing matches is dropped.
Route(state, u) ==
    IF state = END
    THEN IF u = Command("start") THEN "start" ELSE "none"
    ELSE IF u.kind = "text"
    THEN CASE state = ASK_PROMPT -> "handle_prompt"
           [] state = ASK_MODE -> "handle_mode"
           [] state = ASK_FOLLOWUP -> "handle_followup"
           [] state = ASK_FOLLOWUP + QuestionsOffset -> "collect_questions"
           [] state = ASK_FOLLOWUP + AnswersOffset -> "collect_answers"
           [] state = ASK_EXPLAIN -> "handle_explain"
           [] OTHER -> "none"
    ELSE IF u = Command("cancel") THEN "cancel" ELSE "none"

NoUserData ==
    [prompt |-> Missing, mode |-> Missing, optimized |-> Missing, id |-> Missing,
     questions_asked |-> Missing, preferences |-> Missing]

\* history of the session: the optimized text this session's optimize
\* produced, the mode text of its completed mode turn, the answer given at the
\* follow-up decision, the optimize calls made by completed mode turns,
\* whether followup was invoked, and the id the store returned when this
\* session's optimization was logged (None when it was not logged), the
\* number of text turns that completed (counted up to 7), and the texts of
\* its prompt turn and of its follow-up questions turn
NewSession ==
    [opt |-> None, mode |-> None, answer |-> None, n_optimize |-> 0, followup |-> FALSE,
     rid |-> None, turns |-> 0, prompt |-> None, questions |-> None]

Count(cs, op) == Cardinality({i \in 1..Len(cs) : cs[i].op = op})
Invoked(cs, op) == \E i \in 1..Len(cs) : cs[i].op = op

History(h, name, state, u, r, e) ==
    IF name = "start" THEN NewSession
    ELSE [h EXCEPT
            !.opt = IF \E i \in 1..Len(r.calls) :
                         r.calls[i].op = "optimize_prompt" /\ r.calls[i].ok
                    THEN r.ud.optimized ELSE @,
            !.mode = IF name = "handle_mode" /\ ~r.raised THEN u.arg ELSE @,
            !.answer = IF name = "handle_followup" THEN u.arg ELSE @,
            !.n_optimize = IF name = "handle_mode" /\ ~r.raised
                           THEN Min(@ + Count(r.calls, "optimize_prompt"), 2) ELSE @,
            !.followup = @ \/ Invoked(r.calls, "deep_research_questions"),
            !.rid = IF Invoked(r.calls, "log_prompt_to_supabase") THEN e.id ELSE @,
            !.turns = IF u.kind = "text" /\ ~r.raised THEN Min(@ + 1, 7) ELSE @,
            !.prompt = IF name = "handle_prompt" /\ ~r.raised THEN u.arg ELSE @,
            !.questions = IF name = "collect_questions" /\ ~r.raised THEN u.arg ELSE @]

\* what a handler that ran on update u with result r leaves behind: when it
\* returns, its result is the new state; when it raises, the state is left as
\* it was
Effect(name, u, e, r) ==
    /\ conv' = IF r.raised THEN conv ELSE r.ret
    /\ user_data' = r.ud
    /\ emitted' = r.out
    /\ calls' = r.calls
    /\ sess' = History(sess, name, conv, u, r, e)
    /\ turn' = [handler |-> name, update |-> u, from |-> conv, raised |-> r.raised, env |-> e]

Handled(name, u, e, r) ==
    /\ Effect(name, u, e, r)
    /\ UNCHANGED <<variant, configured, api, delivery, dispatch>>

\* the handler a file registers under a name, run on a text
Run(file, name, ud, text, e) ==
    CASE name = "start" -> start(ud, text, e)
      [] name = "handle_prompt" -> handle_prompt(ud, text, e)
      [] name = "handle_mode" ->
            IF file = "main" THEN handle_mode(ud, text, e)
            ELSE unified_handle_mode(ud, text, e)
      [] name = "handle_followup" -> handle_followup(ud, text, e)
      [] name = "collect_questions" -> collect_questions(ud, text, e)
      [] name = "collect_answers" ->
            IF file = "main" THEN collect_answers(ud, text, e)
            ELSE unified_collect_answers(ud, text, e)
      [] name = "handle_explain" ->
            IF file = "main" THEN handle_explain(ud, text, e)
            ELSE unified_handle_explain(ud, text, e)
      [] name = "cancel" -> cancel(ud, text, e)

\* no response text has been planned
NoPlan == [strategy |-> "none", output |-> <<>>]
NoDelivery == [text |-> <<>>, plan |-> NoPlan]

\* the update queue is empty, no update is being handled, none has arrived
NoDispatch == [queue |-> <<>>, inflight |-> {}, arrived |-> 0, done |-> 0]

NoApiCall ==
    [route |-> "none", request |-> OptimizeRequest(None, None),
     env |-> Env(FALSE, NoGen, None, TRUE, TRUE), response |-> Response(200, None, None, <<>>)]

Init ==
    /\ variant \in {"main", "unified"}
    /\ configured \in BOOLEAN
    /\ conv = END
    /\ user_data = NoUserData
    /\ sess = NewSession
    /\ turn = [handler |-> "none", update |-> NonText, from |-> END, raised |-> FALSE,
               env |-> Env(configured, NoGen, None, TRUE, TRUE)]
    /\ emitted = <<>>
    /\ calls = <<>>
    /\ api = NoApiCall
    /\ delivery = NoDelivery
    /\ dispatch = NoDispatch

Start ==
    \E e \in PlainEnvs :
        /\ Route(conv, Command("start")) = "start"
        /\ Handled("start", Command("start"), e, Run(variant, "start", user_data, <<>>, e))

HandlePrompt ==
    \E t \in TextsFor(conv), e \in PlainEnvs :
        /\ Route(conv, Text(t)) = "handle_prompt"
        /\ Handled("handle_prompt", Text(t), e, Run(variant, "handle_prompt", user_data, t, e))

HandleMode ==
    \E t \in TextsFor(conv), e \in ModeEnvs :
        /\ Canonical(e)
        /\ Route(conv, Text(t)) = "handle_mode"
        /\ Handled("handle_mode", Text(t), e, Run(variant, "handle_mode", user_data, t, e))

HandleFollowup ==
    \E t \in TextsFor(conv), e \in PlainEnvs :
        /\ Route(conv, Text(t)) = "handle_followup"
        /\ Handled("handle_followup", Text(t), e, Run(variant, "handle_followup", user_data, t, e))

CollectQuestions ==
    \E t \in TextsFor(conv), e \in PlainEnvs :
        /\ Route(conv, Text(t)) = "collect_questions"
        /\ Handled("collect_questions", Text(t), e,
                   Run(variant, "collect_questions", user_data, t, e))

CollectAnswers ==
    \E t \in TextsFor(conv), e \in AnswerEnvs :
        /\ Canonical(e)
        /\ Route(conv, Text(t)) = "collect_answers"
        /\ Handled("collect_answers", Text(t), e,
                   Run(variant, "collect_answers", user_data, t, e))

HandleExplain ==
    \E t \in TextsFor(conv), e \in ExplainEnvs :
        /\ Canonical(e)
        /\ Route(conv, Text(t)) = "handle_explain"
        /\ Handled("handle_explain", Text(t), e,
                   Run(variant, "handle_explain", user_data, t, e))

Cancel ==
    \E e \in PlainEnvs :
        /\ Route(conv, Command("cancel")) = "cancel"
        /\ Handled("cancel", Command("cancel"), e, Run(variant, "cancel", user_data, <<>>, e))

\* an update no handler matches: nothing runs, nothing is sent
Dropped ==
    \E u \in {Command("start"), Command("cancel"), Command("help"), NonText,
              Text(<<"o", "y">>)}, e \in PlainEnvs :
        /\ Route(conv, u) = "none"
        /\ turn' = [handler |-> "none", update |-> u, from |-> conv, raised |-> FALSE, env |-> e]
        /\ emitted' = <<>>
        /\ calls' = <<>>
        /\ UNCHANGED <<variant, configured, conv, user_data, sess, api, delivery, dispatch>>

Next ==
    \/ Start
    \/ HandlePrompt
    \/ HandleMode
    \/ HandleFollowup
    \/ CollectQuestions
    \/ CollectAnswers
    \/ HandleExplain
    \/ Cancel
    \/ Dropped

Spec == Init /\ [][Next]_vars

(* ------------------------------ the API ------------------------------- *)

\* a route answers one request; no session is read or written
Served(route, data, e, resp) ==
    /\ api' = [route |-> route, request |-> data, env |-> e, response |-> resp]
    /\ calls' = resp.calls
    /\ UNCHANGED <<variant, configured, chat_vars, delivery, dispatch>>

ApiIds == RecordIds \cup {<<>>}
ApiDicts == {extract_json_from_response(Concat(g.frags)) : g \in ExplainGens} \ {NoDict}
ApiPreferences == {None, <<>>, <<"o", "y">>}

OptimizeEndpoint ==
    \E prompt \in PromptTexts, mode \in ModeTexts, e \in ModeEnvs :
        /\ e.sent
        /\ Served("optimize", OptimizeRequest(prompt, mode), e,
                  optimize_endpoint(OptimizeRequest(prompt, mode), e))

ExplainEndpoint ==
    \E original \in PromptTexts, optimized \in {Concat(g.frags) : g \in OptimizeGens},
       mode \in ModeTexts, e \in ExplainEnvs :
        /\ e.sent
        /\ Served("explain", ExplainRequest(original, optimized, mode), e,
                  explain_endpoint(ExplainRequest(original, optimized, mode), e))

FollowupEndpoint ==
    \E id \in ApiIds, questions \in QuestionTexts,
       answers \in {Concat(g.frags) : g \in OptimizeGens},
       preferences \in ApiPreferences, e \in AnswerEnvs :
        /\ e.sent
        /\ Served("followup", ResearchFollowupRequest(id, questions, answers, preferences), e,
                  followup_endpoint(ResearchFollowupRequest(id, questions, answers, preferences), e))

LogFeedbackEndpoint ==
    \E id \in ApiIds, d \in ApiDicts, e \in ExplainEnvs :
        /\ e.gen = Unreachable
        /\ e.sent
        /\ Served("log-feedback", FeedbackLogRequest(id, d), e,
                  log_feedback_endpoint(FeedbackLogRequest(id, d), e))

NextApi ==
    \/ OptimizeEndpoint
    \/ ExplainEndpoint
    \/ FollowupEndpoint
    \/ LogFeedbackEndpoint

SpecApi == Init /\ [][NextApi]_vars

(* ------------------ the delivery plan on long texts -------------------- *)

\* the lengths tried lie around the multiples of MAX_LENGTH up to this one
MaxMultiple == 6

SelectLengths ==
    {n \in {k * MAX_LENGTH + d : k \in 0..MaxMultiple, d \in {-1, 0, 1}} : n >= 0}

Alphabet == <<"a", "b", "c">>

\* a text of n characters; its letters cycle through Alphabet from offset p,
\* so that a slice taken from the wrong place differs from the right one
TextOf(n, p) == [i \in 1..n |-> Alphabet[((i + p) % Len(Alphabet)) + 1]]

SelectTexts == {TextOf(n, p) : n \in SelectLengths, p \in 0..(Len(Alphabet) - 1)}

InitSelect ==
    /\ variant \in {"main", "unified"}
    /\ configured = FALSE
    /\ conv = END
    /\ user_data = NoUserData
    /\ sess = NewSession
    /\ turn = [handler |-> "none", update |-> NonText, from |-> END, raised |-> FALSE,
               env |-> Env(configured, NoGen, None, TRUE, TRUE)]
    /\ emitted = <<>>
    /\ calls = <<>>
    /\ api = NoApiCall
    /\ delivery \in {[text |-> t, plan |-> NoPlan] : t \in SelectTexts}
    /\ dispatch = NoDispatch

\* strategy, output = get_send_strategy(response_text, filename)
SelectStrategy ==
    /\ delivery.plan = NoPlan
    /\ delivery' = [delivery EXCEPT !.plan = get_send_strategy(delivery.text)]
    /\ UNCHANGED <<variant, configured, chat_vars, calls, api, dispatch>>

NextSelect == SelectStrategy

SpecSelect == InitSelect /\ [][NextSelect]_vars

(* ------------------- updates queued behind a turn --------------------- *)

\* the number of updates that arrive in one run
MaxArrivals == 5

TurnUpdates == {Command("start"), Command("cancel"), Text(<<"Y">>), Text(deep_research)}

\* the engine answers with one fragment or is unreachable
TurnEnvs == {Env(configured, g, None, TRUE, TRUE) : g \in {Unreachable, Gen(TRUE, <<<<"a">>>>)}}

\* faulty variant: updates are handled concurrently
CanBegin_concurrent(inflight) == TRUE

\* the Application is built without concurrent_updates and the handlers are
\* registered blocking: the next update is taken from the queue only when no
\* handler is running
CanBegin(inflight) == inflight = {}

InitTurns == Init /\ configured = FALSE

\* an update arrives from the identity and joins the update queue
Arrive ==
    \E u \in TurnUpdates :
        /\ dispatch.arrived < MaxArrivals
        /\ dispatch' = [dispatch EXCEPT
                           !.queue = Append(@, [seq |-> dispatch.arrived + 1, update |-> u]),
                           !.arrived = @ + 1]
        /\ UNCHANGED <<variant, configured, chat_vars, calls, api, delivery>>

\* the oldest queued update is taken and matched against the conversation
\* state; its handler starts running
Begin ==
    /\ dispatch.queue # <<>>
    /\ CanBegin(dispatch.inflight)
    /\ LET q == Head(dispatch.queue)
       IN  dispatch' = [dispatch EXCEPT
                          !.queue = Tail(@),
                          !.inflight = @ \cup {[seq |-> q.seq, update |-> q.update,
                                                 handler |-> Route(conv, q.update)]}]
    /\ UNCHANGED <<variant, configured, chat_vars, calls, api, delivery>>

\* a running handler returns or raises; an update no handler matched is dropped
Finish ==
    \E t \in dispatch.inflight :
        /\ dispatch' = [dispatch EXCEPT !.inflight = @ \ {t}, !.done = t.seq]
        /\ IF t.handler = "none"
           THEN /\ turn' = [handler |-> "none", update |-> t.update, from |-> conv,
                            raised |-> FALSE, env |-> Env(configured, NoGen, None, TRUE, TRUE)]
                /\ emitted' = <<>>
                /\ calls' = <<>>
                /\ UNCHANGED <<conv, user_data, sess>>
           ELSE \E e \in TurnEnvs :
                   Effect(t.handler, t.update, e,
                          Run(variant, t.handler, user_data,
                              IF t.update.kind = "text" THEN t.update.arg ELSE <<>>, e))
        /\ UNCHANGED <<variant, configured, api, delivery>>

NextTurns ==
    \/ Arrive
    \/ Begin
    \/ Finish

SpecTurns == InitTurns /\ [][NextTurns]_vars

(* ------------------------------ claims -------------------------------- *)

GenerationOps == {"optimize_prompt", "explain_prompt", "deep_research_questions"}
PersistenceOps == {"log_prompt_to_supabase", "save_deep_research_questions_separately",
                   "save_explanation_separately"}

\* C1: whenever a turn invokes explain or followup, this session's optimize
\* has already completed and the optimized result it produced is the one in
\* the session and the one handed to the call.
C1_GenerationAfterOptimize ==
    [][\A i \in 1..Len(calls') :
          calls'[i].op \in {"explain_prompt", "deep_research_questions"}
          => /\ sess.opt # None
             /\ user_data.optimized = sess.opt
             /\ calls'[i].args[2] = sess.opt]_vars

\* C1 witness: explain has been invoked in a session that also invoked followup
C1_Witness ==
    /\ Invoked(calls, "explain_prompt")
    /\ sess.followup
    /\ sess.opt # None

\* a text turn the named handler ran to its return
Completed(name) == turn'.handler = name /\ ~turn'.raised

\* C2: a completed mode turn moves to the follow-up decision exactly when the
\* mode text is deep_research and to the explain decision otherwise, and the
\* follow-up decision is entered only in a session whose mode is deep_research.
C2_FollowupOnlyForDeepResearch ==
    [][/\ Completed("handle_mode")
          => /\ conv = ASK_MODE
             /\ conv' = ASK_FOLLOWUP <=> turn'.update.arg = deep_research
             /\ turn'.update.arg # deep_research => conv' = ASK_EXPLAIN
       /\ conv' = ASK_FOLLOWUP => sess'.mode = deep_research]_vars

\* C2 witness: a completed mode turn with another mode text reached the
\* explain decision
C2_Witness ==
    /\ turn.handler = "handle_mode"
    /\ ~turn.raised
    /\ turn.update.arg # deep_research
    /\ conv = ASK_EXPLAIN

\* the yes/no rule as the specification words it: the first character is a
\* "y" in either letter case
Affirmative(t) == t # <<>> /\ t[1] \in {"y", "Y"}

\* C3: a completed mode turn invokes optimize exactly once, and it is the
\* session's only one; followup is invoked only in a deep_research session
\* whose follow-up decision was answered affirmatively; another mode, or a
\* negative answer, leads to the explain decision with followup not invoked.
C3_OptimizeOnceFollowupOnlyOnYes ==
    [][/\ Completed("handle_mode")
          => Count(calls', "optimize_prompt") = 1 /\ sess'.n_optimize = 1
       /\ Invoked(calls', "deep_research_questions")
          => sess.mode = deep_research /\ Affirmative(sess.answer)
       /\ sess'.followup => sess'.mode = deep_research /\ Affirmative(sess'.answer)
       /\ Completed("handle_mode") /\ turn'.update.arg # deep_research
          => conv' = ASK_EXPLAIN /\ ~sess'.followup
       /\ turn'.handler = "handle_followup" /\ ~Affirmative(turn'.update.arg)
          => conv' = ASK_EXPLAIN /\ ~sess'.followup /\ calls' = <<>>
       /\ conv' \in {ASK_FOLLOWUP, ASK_QUESTIONS, ASK_ANSWERS, ASK_EXPLAIN}
          => sess'.n_optimize = 1]_vars

\* C3 witness: a deep_research session answered "No" at the follow-up
\* decision stands at the explain decision, followup not invoked
C3_Witness ==
    /\ turn.handler = "handle_followup"
    /\ turn.update.arg = <<"N", "o">>
    /\ sess.mode = deep_research
    /\ sess.n_optimize = 1
    /\ ~sess.followup
    /\ conv = ASK_EXPLAIN

\* C4 as stated: at both yes/no steps the answer is affirmative exactly when
\* it begins with "y" in either case; the follow-up decision moves to the
\* questions when affirmative and to the explain decision otherwise; the explain
\* decision invokes explain exactly when affirmative and the next state is
\* Terminal in both cases.
C4_AsStated ==
    [][/\ turn'.handler = "handle_followup"
          => /\ Affirmative(turn'.update.arg) => conv' = ASK_QUESTIONS
             /\ ~Affirmative(turn'.update.arg) => conv' = ASK_EXPLAIN
       /\ turn'.handler = "handle_explain"
          => /\ Invoked(calls', "explain_prompt") <=> Affirmative(turn'.update.arg)
             /\ conv' = END]_vars

\* C4 amended: as stated, but the explain decision moves to Terminal when the
\* handler returns; when it raises (the explain generation fails, or the
\* transport refuses an empty explanation) the session stays at the explain
\* decision, which happens only on an affirmative answer.
C4_YesNoRule ==
    [][/\ turn'.handler = "handle_followup"
          => /\ ~turn'.raised
             /\ Affirmative(turn'.update.arg) => conv' = ASK_QUESTIONS
             /\ ~Affirmative(turn'.update.arg) => conv' = ASK_EXPLAIN
       /\ turn'.handler = "handle_explain"
          => /\ Invoked(calls', "explain_prompt") <=> Affirmative(turn'.update.arg)
             /\ ~turn'.raised => conv' = END
             /\ turn'.raised => conv' = ASK_EXPLAIN /\ Affirmative(turn'.update.arg)]_vars

\* C4 witness: an upper-case "Y" at the explain decision invoked explain and
\* ended the session
C4_Witness ==
    /\ turn.handler = "handle_explain"
    /\ turn.update.arg = <<"Y">>
    /\ Invoked(calls, "explain_prompt")
    /\ conv = END

\* C5: in every non-terminal state a cancel command is accepted, and handling
\* it ends the session without any generation or persistence call.
C5_CancelFromEveryState ==
    /\ [](conv \in LiveStates => ENABLED Cancel)
    /\ [][turn'.update = Command("cancel") /\ conv \in LiveStates
            => /\ turn'.handler = "cancel"
               /\ ~turn'.raised
               /\ conv' = END
               /\ calls' = <<>>]_vars

\* C5 witness: a cancel arrived while the follow-up answers were awaited
C5_Witness ==
    /\ turn.handler = "cancel"
    /\ turn.from = ASK_ANSWERS
    /\ conv = END

PersistingHandlers == {"handle_mode", "collect_answers", "handle_explain"}

\* the same turn had no persistence call failed: the store returned the id
\* rid for the session's optimization and every write goes through
Unfailed(rid) ==
    Run(variant, turn'.handler,
        [user_data EXCEPT !.id = IF @ = Missing THEN @ ELSE rid],
        turn'.update.arg,
        [turn'.env EXCEPT !.id = rid, !.saved = TRUE])

GenerationFailed ==
    /\ \E i \in 1..Len(calls') : calls'[i].op \in GenerationOps
    /\ ~turn'.env.gen.ok \/ turn'.env.gen.frags = <<>>

\* a reply that tells the user the turn failed
ReportsFailure(out) == \E k \in 1..Len(out) : out[k].kind = "error"

\* C6 as stated: a turn whose generation call failed reports the failure to
\* the user and leaves the session in the state it was in.
C6_AsStated ==
    [][GenerationFailed => conv' = conv /\ ReportsFailure(emitted')]_vars

\* C9 as stated: with the store not configured no persistence call is made.
C9_AsStated ==
    ~configured => \A i \in 1..Len(calls) : calls[i].op \notin PersistenceOps

\* C10 as stated: a follow-up answers turn of a session that holds no record
\* id makes no persistence call, sends the follow-up text and moves to the
\* explain decision.
C10_AsStated ==
    [][/\ turn'.handler = "collect_answers"
       /\ user_data.id \in {None, Missing}
       /\ turn'.env.gen.ok
       /\ turn'.env.gen.frags # <<>>
       => /\ \A i \in 1..Len(calls') : calls'[i].op \notin PersistenceOps
          /\ emitted' = <<Msg("text", Concat(turn'.env.gen.frags)), UI("want_explain")>>
          /\ conv' = ASK_EXPLAIN]_vars

\* the persistence writes made after the optimize step
LaterWrites == {"save_deep_research_questions_separately", "save_explanation_separately"}

\* C11 as stated: once the store returned an id for the session's logged
\* optimization, every follow-up or explanation write of the session carries it.
C11_AsStated ==
    [][\A i \in 1..Len(calls') :
          (calls'[i].op \in LaterWrites /\ sess.rid \in RecordIds)
          => calls'[i].args[1] = sess.rid]_vars

\* C11 as stated, for the explain API call: the explanation write carries the
\* record id of the request's prompt, never a placeholder.
C11_ApiAsStated ==
    api.route = "explain"
    => \A i \in 1..Len(calls) :
          calls[i].op = "save_explanation_separately" => calls[i].args[1] \in RecordIds

\* C12: the slices of a chunked plan are consecutive pieces of the text in
\* order, each but possibly the last MAX_LENGTH characters long, their
\* concatenation is the text and their number is ceil(len / MAX_LENGTH);
\* 12000 characters give three slices of 4000.
C12_ChunksPartitionText ==
    LET t == delivery.text
        out == delivery.plan.output
        n == Len(delivery.plan.output)
    IN  delivery.plan.strategy = "chunks"
        => /\ n * MAX_LENGTH >= Len(t)
           /\ (n - 1) * MAX_LENGTH < Len(t)
           /\ \A k \in 1..(n - 1) : Len(out[k]) = MAX_LENGTH
           /\ Len(out[n]) \in 1..MAX_LENGTH
           /\ \A k \in 1..n : \A j \in 1..Len(out[k]) :
                 out[k][j] = t[(k - 1) * MAX_LENGTH + j]
           /\ Concat(out) = t
           /\ (Len(t) = 12000 => n = 3 /\ \A k \in 1..n : Len(out[k]) = 4000)

C12_Witness ==
    /\ delivery.plan.strategy = "chunks"
    /\ Len(delivery.text) = 12000
    /\ Len(delivery.plan.output) = 3

\* C13: the length alone fixes the plan: inline with the text unchanged iff
\* len <= MAX_LENGTH, chunked iff MAX_LENGTH < len <= 5 * MAX_LENGTH, a file
\* holding the whole text iff len > 5 * MAX_LENGTH; exactly one plan is made.
C13_PlanByLength ==
    LET t == delivery.text
        plan == delivery.plan
    IN  plan # NoPlan
        => /\ plan.strategy \in {"text", "chunks", "file"}
           /\ plan.strategy = "text" <=> Len(t) <= MAX_LENGTH
           /\ plan.strategy = "chunks"
                 <=> (MAX_LENGTH < Len(t) /\ Len(t) <= 5 * MAX_LENGTH)
           /\ plan.strategy = "file" <=> Len(t) > 5 * MAX_LENGTH
           /\ plan.strategy \in {"text", "file"} => plan.output = <<t>>

C13_Witness ==
    /\ delivery.plan.strategy = "file"
    /\ Len(delivery.text) = 5 * MAX_LENGTH + 1
    /\ delivery.plan.output = <<delivery.text>>

\* C14: at the explain decision, an affirmative answer whose explanation is
\* a text without a usable structured block is answered with that text
\* verbatim, nothing is persisted for it, and the session ends.
C14_RawExplanationFallback ==
    [][(/\ turn'.handler = "handle_explain"
        /\ Affirmative(turn'.update.arg)
        /\ turn'.env.gen.ok
        /\ Concat(turn'.env.gen.frags) # <<>>
        /\ ~Truthy(extract_json_from_response(Concat(turn'.env.gen.frags))))
       => /\ emitted' = <<Msg("text", Concat(turn'.env.gen.frags))>>
          /\ ~Invoked(calls', "save_explanation_separately")
          /\ ~turn'.raised
          /\ conv' = END]_vars

C14_Witness ==
    /\ turn.handler = "handle_explain"
    /\ Affirmative(turn.update.arg)
    /\ extract_json_from_response(Concat(turn.env.gen.frags)) = NoDict
    /\ emitted = <<Msg("text", <<"x">>)>>
    /\ calls # <<>> /\ \A i \in 1..Len(calls) : calls[i].op = "explain_prompt"
    /\ conv = END

\* C15 as stated: the entry command of an identity whose session is live
\* replaces the session: the state becomes AwaitingPrompt and no field of the
\* earlier session is kept.
C15_AsStated ==
    [][(turn'.update = Command("start") /\ conv \in LiveStates)
       => (conv' = ASK_PROMPT /\ user_data' = NoUserData)]_vars

\* C16 as stated: in a live session an input that is not of the kind the state
\* expects (a command other than cancel, a non-text event) leaves the state
\* and the fields as they were and is answered with a re-prompt.
C16_AsStated ==
    [][(/\ conv \in LiveStates
        /\ turn'.from = conv
        /\ turn'.update \in {Command("start"), Command("help"), NonText})
       => (conv' = conv /\ user_data' = user_data /\ emitted' # <<>>)]_vars

\* C17 as stated: when no session is live (the last one reached Terminal or
\* was cancelled) no field value of it is stored, so the next session of the
\* identity starts from empty fields.
C17_AsStated == conv = END => user_data = NoUserData

\* C19 as stated: a mode turn or a follow-up answers turn whose generation
\* fails leaves every session field at the value it had before the turn.
C19_AsStated ==
    [][(/\ turn'.handler \in {"handle_mode", "collect_answers"}
        /\ turn'.from = conv
        /\ ~turn'.env.gen.ok
        /\ turn'.raised)
       => user_data' = user_data]_vars

\* the replies that carry a generated text
GeneratedReply(m) == m.kind \in {"text", "document"}

\* C20 as stated: in a mode turn and in a follow-up answers turn the reply
\* carrying the generated text is sent without waiting for the persistence
\* write: when the write is made, that reply is already among those sent.
C20_AsStated ==
    [][\A i \in 1..Len(calls') :
          (/\ turn'.handler \in {"handle_mode", "collect_answers"}
           /\ turn'.from = conv
           /\ calls'[i].op \in PersistenceOps)
          => \E k \in 1..calls'[i].after : GeneratedReply(emitted'[k])]_vars

\* C18: at most one turn of the identity is in flight; a turn begins only
\* when none is in flight and it is the oldest update not yet handled; while a
\* turn is in flight an arriving update (a cancel included) only joins the
\* queue, and the session changes only by that turn finishing.
C18_OneTurnAtATime ==
    [][LET running == dispatch.inflight
           running2 == dispatch'.inflight
       IN  /\ Cardinality(running2) <= 1
           /\ \A t \in running2 \ running :
                 /\ running = {}
                 /\ t.seq = dispatch.done + 1
                 /\ chat_vars' = chat_vars
           /\ dispatch'.arrived # dispatch.arrived
                 => /\ running2 = running
                    /\ chat_vars' = chat_vars
                    /\ dispatch'.done = dispatch.done
           /\ chat_vars' # chat_vars
                 => \E t \in running :
                       /\ running2 = {}
                       /\ turn'.update = t.update
                       /\ t.seq = dispatch.done + 1
                       /\ dispatch'.done = t.seq]_vars

\* C18 witness: a cancel waits in the queue behind a running mode turn
C18_Witness ==
    /\ \E t \in dispatch.inflight : t.handler = "handle_mode"
    /\ dispatch.queue # <<>>
    /\ Head(dispatch.queue).update = Command("cancel")
    /\ conv = ASK_MODE

\* the preferences a follow-up answers turn works with, and its calls
PassedOn(c, p) ==
    /\ \A i \in 1..Len(c) :
          /\ c[i].op = "deep_research_questions" => c[i].args[3] = p
          /\ c[i].op = "save_deep_research_questions_separately" => c[i].args[4] = p

\* C21 as stated: the input "no" becomes empty preferences and every other
\* text is kept; that value is stored, passed to the followup generation and to
\* the follow-up write, and the session moves to AwaitingExplainDecision
\* (stated here of the turns that complete).
C21_AsStated ==
    [][(turn'.handler = "collect_answers" /\ turn'.from = conv /\ ~turn'.raised)
       => LET t == turn'.update.arg
              p == IF t = <<"n", "o">> THEN <<>> ELSE t
          IN  /\ user_data'.preferences = p
              /\ PassedOn(calls', p)
              /\ conv' = ASK_EXPLAIN]_vars

\* C21: an input that reads "no" in any letter case becomes empty preferences
\* and every other text is kept; that value is stored, is the one every
\* followup generation call and follow-up write of the turn receives, and a
\* turn that completes made both calls and moves to AwaitingExplainDecision,
\* while a turn that raises stays in AwaitingFollowupAnswers.
C21_NoInAnyCase ==
    [][(turn'.handler = "collect_answers" /\ turn'.from = conv)
       => LET t == turn'.update.arg
              p == IF t \in {<<"n", "o">>, <<"N", "o">>, <<"n", "O">>, <<"N", "O">>}
                   THEN <<>> ELSE t
          IN  /\ user_data'.preferences = p
              /\ PassedOn(calls', p)
              /\ ~turn'.raised
                    => /\ conv' = ASK_EXPLAIN
                       /\ Invoked(calls', "deep_research_questions")
                       /\ Invoked(calls', "save_deep_research_questions_separately")
              /\ turn'.raised => conv' = conv]_vars

\* C21 witness: "No" was answered, empty preferences are stored and were passed
\* on, and the session waits for the explain decision
C21_Witness ==
    /\ turn.handler = "collect_answers"
    /\ turn.update.arg = <<"N", "o">>
    /\ user_data.preferences = <<>>
    /\ Invoked(calls, "save_deep_research_questions_separately")
    /\ PassedOn(calls, <<>>)
    /\ conv = ASK_EXPLAIN

\* C22: the stored prompt changes only in the text turn that leaves
\* AwaitingPrompt, which stores its input; from AwaitingMode on, no turn of the
\* session, whether it completes, raises, is dropped or cancels, changes it.
C22_PromptWrittenOnce ==
    [][/\ user_data'.prompt # user_data.prompt
          => /\ turn'.handler = "handle_prompt"
             /\ conv = ASK_PROMPT
             /\ conv' = ASK_MODE
             /\ turn'.update.kind = "text"
             /\ user_data'.prompt = turn'.update.arg
       /\ conv \in LiveStates \ {ASK_PROMPT} => user_data'.prompt = user_data.prompt]_vars

\* C22 witness: a session ran from its prompt "Y" through its mode turn to
\* Terminal, and the stored prompt is still "Y"
C22_Witness ==
    /\ turn.handler = "handle_explain"
    /\ conv = END
    /\ sess.n_optimize = 1
    /\ user_data.prompt = <<"Y">>
    /\ user_data.optimized = sess.opt

\* the place of a section in the fixed order, by its title
TitleIndex(title) ==
    CASE title = "Original Prompt Strengths" -> 1
      [] title = "Original Prompt Weaknesses" -> 2
      [] title \in {"What LLMs Understand Better Now",
                    "What the LLM Understands Better Now"} -> 3
      [] title = "Tips for Future Prompts" -> 4
      [] OTHER -> 0

\* the items a section message lists, in order
ListedItems(body) == SelectSeq(Tail(body), LAMBDA c : c \in SectionLetters)

\* an affirmative explain turn whose generation completed
Explained == turn'.handler = "handle_explain" /\ Affirmative(turn'.update.arg) /\ turn'.env.gen.ok

\* C23 as stated: whenever the explanation holds a structured block, the
\* reply starts with the heading and the record is persisted in that turn.
C23_AsStated ==
    [][(Explained /\ Blocks(Concat(turn'.env.gen.frags)) # {})
       => /\ emitted' # <<>>
          /\ emitted'[1] = Msg("markdown", <<"Prompt Feedback Analysis">>)
          /\ Invoked(calls', "save_explanation_separately")]_vars

\* C23: when the explanation holds a structured block that is not an empty
\* record, the reply is the heading followed by one message per section with
\* a non-empty list, in the order strengths, weaknesses, understanding, tips,
\* each listing its items in order; the record is persisted in that turn and
\* the session ends.
C23_SectionsInOrder ==
    [][(Explained /\ Truthy(extract_json_from_response(Concat(turn'.env.gen.frags))))
       => /\ ~turn'.raised /\ conv' = END
          /\ \E i \in 1..Len(calls') :
                /\ calls'[i].op = "save_explanation_separately"
                /\ calls'[i].dict = extract_json_from_response(Concat(turn'.env.gen.frags))
                /\ LET d == calls'[i].dict
                       lists == <<d.strengths, d.weaknesses,
                                  d.llm_understanding_improvements,
                                  d.tips_for_future_prompts>>
                       present == {k \in 1..4 : lists[k] # <<>>}
                   IN  /\ Len(emitted') = 1 + Cardinality(present)
                       /\ emitted'[1] = Msg("markdown", <<"Prompt Feedback Analysis">>)
                       /\ \A k \in 2..Len(emitted') :
                             /\ emitted'[k].kind = "markdown"
                             /\ TitleIndex(emitted'[k].body[1]) \in present
                             /\ ListedItems(emitted'[k].body)
                                   = lists[TitleIndex(emitted'[k].body[1])]
                             /\ \A j \in 2..(k - 1) :
                                   TitleIndex(emitted'[j].body[1])
                                      < TitleIndex(emitted'[k].body[1])]_vars

\* C23 witness: a block naming tips before strengths was rendered as heading,
\* strengths, tips, and its record was persisted
C23_Witness ==
    /\ turn.handler = "handle_explain"
    /\ Concat(turn.env.gen.frags) = <<"x", "{", "T", "S", "}">>
    /\ Len(emitted) = 3
    /\ emitted[2].body[1] = "Original Prompt Strengths"
    /\ emitted[3].body[1] = "Tips for Future Prompts"
    /\ Invoked(calls, "save_explanation_separately")
    /\ conv = END

\* the place of a conversation state in the workflow order
Rank(state) ==
    CASE state = ASK_PROMPT -> 1
      [] state = ASK_MODE -> 2
      [] state = ASK_FOLLOWUP -> 3
      [] state = ASK_QUESTIONS -> 4
      [] state = ASK_ANSWERS -> 5
      [] state = ASK_EXPLAIN -> 6
      [] state = END -> 7

\* C24: a turn of a live session that completes moves the state strictly
\* forward in workflow order, a turn that does not complete leaves it where it
\* was; so a session counts at most 6 completed text turns after the entry
\* command, and one that ended by its explain turn counts 6 with the follow-up
\* taken, 4 with the follow-up declined, and exactly 3 when the mode is not
\* deep_research.
C24_ForwardOnly ==
    [][/\ (conv \in LiveStates /\ conv' # conv) => Rank(conv') > Rank(conv)
       /\ (conv \in LiveStates /\ turn'.from = conv /\ turn'.handler # "none"
           /\ ~turn'.raised) => Rank(conv') > Rank(conv)
       /\ sess'.turns <= 6
       /\ (turn'.handler = "handle_explain" /\ ~turn'.raised)
          => /\ conv' = END
             /\ sess'.turns \in {3, 4, 6}
             /\ sess'.mode # deep_research => sess'.turns = 3
             /\ sess'.turns = 6 <=> sess'.followup
             /\ sess'.turns = 4
                   <=> (sess'.mode = deep_research /\ ~Affirmative(sess'.answer))]_vars

\* C24 witness: a deep_research session with the follow-up taken reached
\* Terminal by its sixth text turn
C24_Witness ==
    /\ turn.handler = "handle_explain"
    /\ conv = END
    /\ sess.mode = deep_research
    /\ sess.followup
    /\ sess.turns = 6

\* C25: in every session of the identity, the prompt, the optimized text and
\* the mode handed to explain, and the questions and the optimized text handed
\* to followup, are the ones this session's own prompt, mode and questions
\* turns wrote, whatever earlier sessions left in user_data.
C25_CurrentSessionValues ==
    [][\A i \in 1..Len(calls') :
          /\ calls'[i].op = "explain_prompt"
             => /\ sess.prompt # None /\ sess.opt # None /\ sess.mode # None
                /\ calls'[i].args = <<sess.prompt, sess.opt, sess.mode>>
          /\ calls'[i].op = "deep_research_questions"
             => /\ sess.questions # None /\ sess.opt # None
                /\ calls'[i].args[1] = sess.questions
                /\ calls'[i].args[2] = sess.opt
                /\ calls'[i].args[3] = user_data'.preferences]_vars

\* C25 witness: explain was invoked in a session that asked no follow-up
\* questions while user_data still holds the questions and preferences of an
\* earlier session
C25_Witness ==
    /\ turn.handler = "handle_explain"
    /\ Invoked(calls, "explain_prompt")
    /\ sess.questions = None
    /\ ~sess.followup
    /\ user_data.questions_asked # Missing
    /\ user_data.preferences # Missing

=============================================================================
